---- MODULE Spec2Model ----
(***************************************************************************)
(* Model of the OTP session state machine of backend/main.py: the          *)
(* otp_sessions collection and the two request handlers initiate_payment   *)
(* and verify_otp.                                                         *)
(*                                                                         *)
(* The collection lives in a MongoDB server that any number of server      *)
(* processes share, so requests are modelled as handlers whose store       *)
(* operations (insert_one, find_one, update_one) are the atomic steps,     *)
(* interleaved in any order, and the clock may advance between them.      *)
(* The collection has no unique index: a document is identified by its     *)
(* position, and find_one / update_one act on the first document, in       *)
(* insertion order, that matches their filter.                             *)
(***************************************************************************)
EXTENDS Integers, Sequences, FiniteSets, TLC

(* ---------------------------- bounds ----------------------------------- *)
\* The store holds at most MaxSessions documents.
MaxSessions == 2
\* The clock runs from 0 to MaxTime (one unit is one minute).
MaxTime == 3

\* The request handlers that may be in progress at the same time.
Procs == {"h1", "h2"}
\* The values generate_session_id may return (a small alphabet, so that a
\* repeated value is among the cases).
SessionIds == {"S1", "S2"}
\* The codes a caller may submit.
Otps == {"111111", "222222"}
\* The values generate_otp may return. The handlers only ever test a stored
\* code for equality with the submitted one, so one stored value and two
\* submitted values give both outcomes of that test for every document.
GenOtps == {"111111"}
\* The validated card inputs: card_number as a sequence of digits.
Cards == { [card_number |-> <<4,1,1,1,1,1,1,1,1,1,1,1,1,1,1,1>>,
            holder_name |-> "Jane Doe"] }

(* ---------------------- program constants ------------------------------ *)
OTP_EXPIRY_MINUTES == 2

\* A field a document does not carry (verified_at before the $set).
Absent == -1

(* ------------------------------ state ---------------------------------- *)
VARIABLES
    otp_collection, \* the documents of db["otp_sessions"], in insertion order
    now,            \* the value datetime.utcnow() returns
    pc,             \* each handler's position in its function
    data,           \* each handler's request payload (card, or session_id and otp)
    local,          \* initiate_payment's locals session_id, otp, expiry_time
    session,        \* verify_otp's local `session`: <<>> for None, else <<document>>
    resp,           \* what the handler answered: <<>> or <<response>>
    found,          \* history: position of the document find_one returned (0: none)
    at_find         \* history: the clock, and whether a wrong code had already
                    \* consumed a session of this session_id, at the handler's find_one

vars == <<otp_collection, now, pc, data, local, session, resp, found, at_find>>

(* --------------------------- helpers ----------------------------------- *)
\* card.card_number[-4:]
LastFour(s) == IF Len(s) <= 4 THEN s ELSE SubSeq(s, Len(s) - 3, Len(s))

Min(S) == CHOOSE x \in S : \A y \in S : x <= y

\* The first of the positions S of the matching documents, 0 when none matches.
FirstMatch(S) == IF S = {} THEN 0 ELSE Min(S)

\* otp_collection.find_one({"session_id": sid, "verified": False})
FindOne(coll, sid) ==
    FirstMatch({ i \in 1..Len(coll) :
                    coll[i].session_id = sid /\ coll[i].verified = FALSE })

\* {"$set": fields} applied to document d.
ApplySet(d, fields) ==
    [f \in DOMAIN d |-> IF f \in DOMAIN fields THEN fields[f] ELSE d[f]]

\* update_one with an empty filter: the first document of the collection.
UpdateOneAny(coll, sid, fields) ==
    IF Len(coll) = 0 THEN coll ELSE [coll EXCEPT ![1] = ApplySet(coll[1], fields)]

\* otp_collection.update_one({"session_id": sid}, {"$set": fields}): the
\* first document with that session_id gets the fields; when no document
\* matches, the collection stays as it is.
UpdateOne(coll, sid, fields) ==
    LET i == FirstMatch({ j \in 1..Len(coll) : coll[j].session_id = sid })
    IN IF i = 0 THEN coll ELSE [coll EXCEPT ![i] = ApplySet(coll[i], fields)]

\* An upsert keyed by session_id: a document of that session_id is replaced.
InsertOneUpsert(coll, doc) ==
    LET i == FirstMatch({ j \in 1..Len(coll) : coll[j].session_id = doc.session_id })
    IN IF i = 0 THEN Append(coll, doc) ELSE [coll EXCEPT ![i] = doc]

\* otp_collection.insert_one(doc): appended, whatever the collection holds.
InsertOne(coll, doc) == Append(coll, doc)

(* --------------------------- responses --------------------------------- *)
InitiateResponse(sid, otp) ==
    [kind |-> "InitiateResponse", success |-> TRUE, status |-> "",
     message |-> "OTP generated. Valid for 2 minutes.",
     session_id |-> sid, otp |-> otp]

VerifyResponse(success, status, message) ==
    [kind |-> "VerifyResponse", success |-> success, status |-> status,
     message |-> message, session_id |-> "", otp |-> ""]

\* raise HTTPException(status_code=500, detail=str(e))
HTTPException500 ==
    [kind |-> "HTTPException", success |-> FALSE, status |-> "500",
     message |-> "", session_id |-> "", otp |-> ""]

NotFoundResponse ==
    VerifyResponse(FALSE, "payment_failed", "Invalid or expired session")
ExpiredResponse ==
    VerifyResponse(FALSE, "payment_failed", "OTP has expired. Please initiate a new payment.")
SuccessResponse ==
    VerifyResponse(TRUE, "payment_success", "Payment verified successfully!")
InvalidOtpResponse ==
    VerifyResponse(FALSE, "payment_failed", "Invalid OTP. Payment failed.")

(* ----------------------------- Init ------------------------------------ *)
NoData  == [session_id |-> "", otp |-> "", card |-> <<>>]
NoLocal == [session_id |-> "", otp |-> "", expiry_time |-> Absent]
NoFind  == [time |-> Absent, burned |-> FALSE]

Init ==
    /\ otp_collection = <<>>
    /\ now = 0
    /\ pc = [p \in Procs |-> "idle"]
    /\ data = [p \in Procs |-> NoData]
    /\ local = [p \in Procs |-> NoLocal]
    /\ session = [p \in Procs |-> <<>>]
    /\ resp = [p \in Procs |-> <<>>]
    /\ found = [p \in Procs |-> 0]
    /\ at_find = [p \in Procs |-> NoFind]

(* ------------------------- the environment ----------------------------- *)
\* Time passes.
Tick ==
    /\ now < MaxTime
    /\ now' = now + 1
    /\ UNCHANGED <<otp_collection, pc, data, local, session, resp, found, at_find>>

\* The response has been sent: the handler is free for the next request.
Return(p) ==
    /\ pc[p] = "done"
    /\ pc' = [pc EXCEPT ![p] = "idle"]
    /\ data' = [data EXCEPT ![p] = NoData]
    /\ resp' = [resp EXCEPT ![p] = <<>>]
    /\ found' = [found EXCEPT ![p] = 0]
    /\ UNCHANGED <<otp_collection, now, local, session, at_find>>

(* ------------------------- initiate_payment ---------------------------- *)
InitiatesInFlight == { p \in Procs : pc[p] = "i_gen" }

\* Lines 144-148: session_id, otp and expiry_time.
InitiateGenerate(p, card, sid, otp) ==
    /\ pc[p] = "idle"
    /\ Len(otp_collection) + Cardinality(InitiatesInFlight) < MaxSessions
    /\ pc' = [pc EXCEPT ![p] = "i_gen"]
    /\ data' = [data EXCEPT ![p] = [NoData EXCEPT !.card = <<card>>]]
    /\ local' = [local EXCEPT ![p] =
                    [session_id |-> sid, otp |-> otp,
                     expiry_time |-> now + OTP_EXPIRY_MINUTES]]
    /\ UNCHANGED <<otp_collection, now, session, resp, found, at_find>>

\* Lines 151-159: the document; created_at is a second reading of the clock.
OtpDoc(p) ==
    [session_id |-> local[p].session_id,
     otp |-> local[p].otp,
     card_last_four |-> LastFour(data[p].card[1].card_number),
     holder_name |-> data[p].card[1].holder_name,
     created_at |-> now,
     expires_at |-> local[p].expiry_time,
     verified |-> FALSE,
     expired |-> FALSE,
     verified_at |-> Absent,
     failed |-> FALSE]

\* Lines 151-167: the document is built and inserted, and the response returned.
InitiateInsert(p) ==
    /\ pc[p] = "i_gen"
    /\ otp_collection' = InsertOne(otp_collection, OtpDoc(p))
    /\ resp' = [resp EXCEPT ![p] = <<InitiateResponse(local[p].session_id, local[p].otp)>>]
    /\ local' = [local EXCEPT ![p] = NoLocal]
    /\ pc' = [pc EXCEPT ![p] = "done"]
    /\ UNCHANGED <<now, data, session, found, at_find>>

(* ----------------------------- verify_otp ------------------------------ *)
\* The $set documents of lines 202, 215 and 226.
SetExpired == [verified |-> TRUE, expired |-> TRUE]
SetVerified == [verified |-> TRUE, verified_at |-> now]
\* The wrong-code $set without the verified field.
SetFailedOnly == [failed |-> TRUE]
SetFailed == [verified |-> TRUE, failed |-> TRUE]

\* A wrong code has been answered for this session_id (line 226 has run).
Burned(coll, sid) == \E i \in 1..Len(coll) : coll[i].session_id = sid /\ coll[i].failed

\* VerifyFind with a call on a session that is not pending counted as an
\* attempt too: it marks the session of that session_id failed.
VerifyFindMarking(p, sid, otp) ==
    /\ pc[p] = "idle"
    /\ LET i == FindOne(otp_collection, sid) IN
        /\ data' = [data EXCEPT ![p] = [NoData EXCEPT !.session_id = sid, !.otp = otp]]
        /\ found' = [found EXCEPT ![p] = i]
        /\ IF i = 0
             THEN /\ session' = session
                  /\ at_find' = at_find
                  /\ otp_collection' = UpdateOne(otp_collection, sid, SetFailed)
                  /\ resp' = [resp EXCEPT ![p] = <<NotFoundResponse>>]
                  /\ pc' = [pc EXCEPT ![p] = "done"]
             ELSE /\ session' = [session EXCEPT ![p] = <<otp_collection[i]>>]
                  /\ at_find' = [at_find EXCEPT ![p] =
                        [time |-> now, burned |-> Burned(otp_collection, sid)]]
                  /\ otp_collection' = otp_collection
                  /\ resp' = resp
                  /\ pc' = [pc EXCEPT ![p] = "v_found"]
    /\ UNCHANGED <<now, local>>

\* VerifyFind with a message of its own for a session that was consumed.
VerifyFindLeaky(p, sid, otp) ==
    /\ pc[p] = "idle"
    /\ LET i == FindOne(otp_collection, sid) IN
        /\ data' = [data EXCEPT ![p] = [NoData EXCEPT !.session_id = sid, !.otp = otp]]
        /\ found' = [found EXCEPT ![p] = i]
        /\ IF i = 0
             THEN /\ session' = session
                  /\ at_find' = at_find
                  /\ resp' = [resp EXCEPT ![p] =
                        IF \E j \in 1..Len(otp_collection) : otp_collection[j].session_id = sid
                          THEN <<VerifyResponse(FALSE, "payment_failed", "Session already used")>>
                          ELSE <<NotFoundResponse>>]
                  /\ pc' = [pc EXCEPT ![p] = "done"]
             ELSE /\ session' = [session EXCEPT ![p] = <<otp_collection[i]>>]
                  /\ at_find' = [at_find EXCEPT ![p] =
                        [time |-> now, burned |-> Burned(otp_collection, sid)]]
                  /\ resp' = resp
                  /\ pc' = [pc EXCEPT ![p] = "v_found"]
    /\ UNCHANGED <<otp_collection, now, local>>

\* Lines 185-195: find_one, and the response when it returns None.
VerifyFind(p, sid, otp) ==
    /\ pc[p] = "idle"
    /\ LET i == FindOne(otp_collection, sid) IN
        /\ data' = [data EXCEPT ![p] = [NoData EXCEPT !.session_id = sid, !.otp = otp]]
        /\ found' = [found EXCEPT ![p] = i]
        /\ IF i = 0
             THEN /\ session' = session
                  /\ at_find' = at_find
                  /\ resp' = [resp EXCEPT ![p] = <<NotFoundResponse>>]
                  /\ pc' = [pc EXCEPT ![p] = "done"]
             ELSE /\ session' = [session EXCEPT ![p] = <<otp_collection[i]>>]
                  /\ at_find' = [at_find EXCEPT ![p] =
                        [time |-> now, burned |-> Burned(otp_collection, sid)]]
                  /\ resp' = resp
                  /\ pc' = [pc EXCEPT ![p] = "v_found"]
    /\ UNCHANGED <<otp_collection, now, local>>

\* After find_one the handler reads the clock (line 198), compares the codes
\* (line 211) and calls update_one. The first two read only the handler's own
\* snapshot `session` and the clock, so they are taken in one step with the
\* update_one; the clock may advance, and other handlers may act, between
\* find_one and that step.

\* The expiry test with >= for >.
ExpiredNonStrict(t, doc) == t >= doc.expires_at

\* Line 198: datetime.utcnow() > session["expires_at"]
Expired(t, doc) == t > doc.expires_at

\* The comparison of the codes left out.
OtpMatchesAny(doc, otp) == TRUE

\* Line 211: session["otp"] == data.otp
OtpMatches(doc, otp) == doc.otp = otp

\* The end of a verify_otp call that found a session: its locals are gone.
VerifyReturns(p, r) ==
    /\ resp' = [resp EXCEPT ![p] = <<r>>]
    /\ session' = [session EXCEPT ![p] = <<>>]
    /\ at_find' = [at_find EXCEPT ![p] = NoFind]
    /\ pc' = [pc EXCEPT ![p] = "done"]
    /\ UNCHANGED <<now, data, local, found>>

\* Lines 198-208: the session has expired.
VerifyMarkExpired(p) ==
    /\ pc[p] = "v_found"
    /\ Expired(now, session[p][1])
    /\ otp_collection' = UpdateOne(otp_collection, data[p].session_id, SetExpired)
    /\ VerifyReturns(p, ExpiredResponse)

\* Lines 198, 211-221: not expired, and the codes are equal.
VerifyMarkVerified(p) ==
    /\ pc[p] = "v_found"
    /\ ~Expired(now, session[p][1])
    /\ OtpMatches(session[p][1], data[p].otp)
    /\ otp_collection' = UpdateOne(otp_collection, data[p].session_id, SetVerified)
    /\ VerifyReturns(p, SuccessResponse)

\* Lines 198, 211, 222-232: not expired, and the codes differ.
VerifyMarkFailed(p) ==
    /\ pc[p] = "v_found"
    /\ ~Expired(now, session[p][1])
    /\ ~OtpMatches(session[p][1], data[p].otp)
    /\ otp_collection' = UpdateOne(otp_collection, data[p].session_id, SetFailed)
    /\ VerifyReturns(p, InvalidOtpResponse)

(* ------------------------- store failures ------------------------------ *)
\* Lines 169-170 and 234-235: a store operation raises and the handler
\* answers 500. The operation that raised has not been applied.
\* The handler raises after its insert_one has been applied.
InsertRaisesAfterInsert(p) ==
    /\ pc[p] = "i_gen"
    /\ otp_collection' = InsertOne(otp_collection, OtpDoc(p))
    /\ resp' = [resp EXCEPT ![p] = <<HTTPException500>>]
    /\ local' = [local EXCEPT ![p] = NoLocal]
    /\ pc' = [pc EXCEPT ![p] = "done"]
    /\ UNCHANGED <<now, data, session, found, at_find>>

InsertRaises(p) ==
    /\ pc[p] = "i_gen"
    /\ resp' = [resp EXCEPT ![p] = <<HTTPException500>>]
    /\ local' = [local EXCEPT ![p] = NoLocal]
    /\ pc' = [pc EXCEPT ![p] = "done"]
    /\ UNCHANGED <<otp_collection, now, data, session, found, at_find>>

\* find_one raises whatever the payload, which is therefore left out.
FindRaises(p) ==
    /\ pc[p] = "idle"
    /\ data' = data
    /\ resp' = [resp EXCEPT ![p] = <<HTTPException500>>]
    /\ pc' = [pc EXCEPT ![p] = "done"]
    /\ UNCHANGED <<otp_collection, now, local, session, found, at_find>>

UpdateRaises(p) ==
    /\ pc[p] = "v_found"
    /\ otp_collection' = otp_collection
    /\ VerifyReturns(p, HTTPException500)

(* ------------------------------ Next ----------------------------------- *)
Next ==
    \/ Tick
    \/ \E p \in Procs : Return(p)
    \/ \E p \in Procs, card \in Cards, sid \in SessionIds, otp \in GenOtps :
            InitiateGenerate(p, card, sid, otp)
    \/ \E p \in Procs : InitiateInsert(p)
    \/ \E p \in Procs, sid \in SessionIds, otp \in Otps : VerifyFind(p, sid, otp)
    \/ \E p \in Procs : VerifyMarkExpired(p)
    \/ \E p \in Procs : VerifyMarkVerified(p)
    \/ \E p \in Procs : VerifyMarkFailed(p)
    \/ \E p \in Procs : InsertRaises(p)
    \/ \E p \in Procs : FindRaises(p)
    \/ \E p \in Procs : UpdateRaises(p)

Spec == Init /\ [][Next]_vars

(* The executions in which verify_otp calls do not overlap: a call starts   *)
(* only when no other handler is between its find_one and its update_one.  *)
NoVerifyInFlight == \A q \in Procs : pc[q] # "v_found"

SeqNext ==
    \/ Tick
    \/ \E p \in Procs : Return(p)
    \/ \E p \in Procs, card \in Cards, sid \in SessionIds, otp \in GenOtps :
            InitiateGenerate(p, card, sid, otp)
    \/ \E p \in Procs : InitiateInsert(p)
    \/ \E p \in Procs, sid \in SessionIds, otp \in Otps :
            NoVerifyInFlight /\ VerifyFind(p, sid, otp)
    \/ \E p \in Procs : VerifyMarkExpired(p)
    \/ \E p \in Procs : VerifyMarkVerified(p)
    \/ \E p \in Procs : VerifyMarkFailed(p)
    \/ \E p \in Procs : InsertRaises(p)
    \/ \E p \in Procs : FindRaises(p)
    \/ \E p \in Procs : UpdateRaises(p)

SeqSpec == Init /\ [][SeqNext]_vars

TypeOK ==
    /\ Len(otp_collection) <= MaxSessions
    /\ now \in 0..MaxTime
    /\ pc \in [Procs -> {"idle", "i_gen", "v_found", "done"}]

(* ======================= the claims ==================================== *)
\* Handler p has answered a verify_otp call with a VerifyResponse.
Answered(p) ==
    /\ pc[p] = "done"
    /\ data[p].session_id # ""
    /\ resp[p][1].kind = "VerifyResponse"

\* The positions of the documents that carry session_id sid.
DocsWith(coll, sid) == { i \in 1..Len(coll) : coll[i].session_id = sid }

\* Handler p takes, in this step, the last step of a verify_otp call that
\* found a session, and answers with a VerifyResponse.
Answers(p) ==
    /\ pc[p] = "v_found"
    /\ pc'[p] = "done"
    /\ resp'[p][1].kind = "VerifyResponse"

\* Handler p takes, in this step, the find_one of a verify_otp call.
Finds(p) ==
    /\ pc[p] = "idle"
    /\ pc'[p] \in {"v_found", "done"}
    /\ data'[p].session_id # ""

\* The outcome flags a document carries.
Outcomes(d) ==
    (IF d.expired THEN {"expired"} ELSE {}) \cup
    (IF d.verified_at # Absent THEN {"verified_at"} ELSE {}) \cup
    (IF d.failed THEN {"failed"} ELSE {})

\* C1: two verify_otp calls that ran concurrently on the same session (both
\* found the one document of that session_id), both with the correct code and
\* neither past expiry: exactly one of them answered success.
C1_ExactlyOneSuccess ==
    \A p, q \in Procs :
        ( /\ p # q
          /\ Answered(p) /\ Answered(q)
          /\ data[p].session_id = data[q].session_id
          /\ found[p] # 0 /\ found[q] = found[p]
          /\ Cardinality(DocsWith(otp_collection, data[p].session_id)) = 1
          /\ data[p].otp = otp_collection[found[p]].otp
          /\ data[q].otp = otp_collection[found[q]].otp
          /\ resp[p][1] # ExpiredResponse /\ resp[q][1] # ExpiredResponse )
        => (resp[p][1].success # resp[q][1].success)

\* C2: when verify_otp calls do not overlap, no session is answered success
\* twice: two calls that found the same document are not both a success.
C2_AtMostOneSuccess ==
    \A p, q \in Procs :
        ( /\ p # q
          /\ Answered(p) /\ Answered(q)
          /\ found[p] # 0 /\ found[q] = found[p] )
        => ~(resp[p][1].success /\ resp[q][1].success)

\* C3: a verify_otp call whose find_one came after a wrong code had been
\* answered "Invalid OTP" for the same session_id does not answer success.
C3_WrongCodeConsumes ==
    [][ \A p \in Procs :
            (pc[p] = "v_found" /\ pc'[p] = "done" /\ at_find[p].burned)
            => (resp'[p][1].success = FALSE) ]_vars

\* C4: a document is written only while its verified is still false, and it
\* carries at most one of the outcome flags expired, verified_at, failed.
C4_ConditionalTerminalUpdate ==
    [][ \A i \in 1..Len(otp_collection) :
            /\ (otp_collection'[i] # otp_collection[i]) => ~otp_collection[i].verified
            /\ Cardinality(Outcomes(otp_collection'[i])) <= 1 ]_vars

\* C5: no two verify_otp calls have their submitted code compared (line 211:
\* the answer is success or "Invalid OTP") with the code of the same document.
C5_OneGuessPerSession ==
    \A p, q \in Procs :
        ( /\ p # q
          /\ Answered(p) /\ Answered(q)
          /\ found[p] # 0 /\ found[q] = found[p] )
        => ~( /\ resp[p][1] \in {SuccessResponse, InvalidOtpResponse}
              /\ resp[q][1] \in {SuccessResponse, InvalidOtpResponse} )

\* C6: a verify_otp call whose find_one returned a session later than
\* created_at + OTP_EXPIRY_MINUTES answers with the expired message, and the
\* session it found is then verified and carries the expired flag.
C6_LateVerifyExpires ==
    [][ \A p \in Procs :
            ( /\ Answers(p)
              /\ at_find[p].time > session[p][1].created_at + OTP_EXPIRY_MINUTES )
            => ( /\ resp'[p][1] = ExpiredResponse
                 /\ otp_collection'[found[p]].verified
                 /\ otp_collection'[found[p]].expired ) ]_vars

\* C7: no two documents of the collection carry the same session_id.
C7_UniqueSessionIds ==
    \A i, j \in 1..Len(otp_collection) :
        i # j => otp_collection[i].session_id # otp_collection[j].session_id

\* C8: a document that is verified stays verified, and a find_one for a
\* session_id of which a document is verified returns no session.
C8_NeverReopened ==
    [][ /\ \A i \in 1..Len(otp_collection) :
                otp_collection[i].verified => otp_collection'[i].verified
        /\ \A p \in Procs :
                ( /\ Finds(p)
                  /\ \E i \in 1..Len(otp_collection) :
                        /\ otp_collection[i].session_id = data'[p].session_id
                        /\ otp_collection[i].verified )
                => (pc'[p] = "done" /\ resp'[p] = <<NotFoundResponse>>) ]_vars

\* C9: a verify_otp call whose session_id has no unverified document answers
\* failure at its find_one and leaves the collection as it was.
C9_NotFoundNoMutation ==
    [][ \A p \in Procs :
            ( /\ Finds(p)
              /\ ~\E i \in 1..Len(otp_collection) :
                    /\ otp_collection[i].session_id = data'[p].session_id
                    /\ ~otp_collection[i].verified )
            => ( /\ pc'[p] = "done"
                 /\ resp'[p][1].kind = "VerifyResponse"
                 /\ resp'[p][1].success = FALSE
                 /\ resp'[p][1].status = "payment_failed"
                 /\ otp_collection' = otp_collection ) ]_vars

\* A call on a consumed session has been answered "not found".
C9_Witness ==
    \E p \in Procs :
        /\ Answered(p)
        /\ found[p] = 0
        /\ DocsWith(otp_collection, data[p].session_id) # {}
        /\ \A i \in DocsWith(otp_collection, data[p].session_id) : otp_collection[i].verified
        /\ resp[p][1].success = FALSE

\* C10: every verify_otp call whose find_one returned nothing got the same
\* response, whether its session_id was never issued or already consumed,
\* and whatever code it submitted.
C10_SameResponse ==
    \A p, q \in Procs :
        ( /\ Answered(p) /\ Answered(q)
          /\ found[p] = 0 /\ found[q] = 0 )
        => resp[p] = resp[q]

\* One call on a session_id no document carries, one on a consumed session,
\* with different codes.
C10_Witness ==
    \E p, q \in Procs :
        /\ Answered(p) /\ Answered(q)
        /\ found[p] = 0 /\ found[q] = 0
        /\ DocsWith(otp_collection, data[p].session_id) = {}
        /\ DocsWith(otp_collection, data[q].session_id) # {}
        /\ \A i \in DocsWith(otp_collection, data[q].session_id) : otp_collection[i].verified
        /\ data[p].otp # data[q].otp

\* Handler p takes, in this step, the insert_one of an initiate_payment call
\* and answers with an InitiateResponse.
Inserts(p) ==
    /\ pc[p] = "i_gen"
    /\ pc'[p] = "done"
    /\ resp'[p][1].kind = "InitiateResponse"

\* Handler p ends, in this step, a call with an HTTPException.
Raises(p) ==
    /\ pc[p] # "done"
    /\ pc'[p] = "done"
    /\ resp'[p][1].kind = "HTTPException"

\* The fields of a document that are set at its creation.
CreationFields ==
    {"session_id", "otp", "card_last_four", "holder_name", "created_at", "expires_at"}

\* C11: a document has verified = false exactly when it carries none of the
\* outcome flags expired, verified_at, failed.
C11_PendingIffNoOutcome ==
    \A i \in 1..Len(otp_collection) :
        (otp_collection[i].verified = FALSE) <=> (Outcomes(otp_collection[i]) = {})

\* A document that a wrong code consumed next to one that is still pending.
C11_Witness ==
    \E i, j \in 1..Len(otp_collection) :
        /\ otp_collection[i].verified /\ otp_collection[i].failed
        /\ ~otp_collection[j].verified

\* C12: an initiate_payment call that answers success adds exactly one
\* document, pending and without outcome flag, and leaves the documents the
\* collection already held as they were.
C12_InitiateAddsOne ==
    [][ \A p \in Procs :
            Inserts(p)
            => ( /\ Len(otp_collection') = Len(otp_collection) + 1
                 /\ SubSeq(otp_collection', 1, Len(otp_collection)) = otp_collection
                 /\ otp_collection'[Len(otp_collection')].verified = FALSE
                 /\ Outcomes(otp_collection'[Len(otp_collection')]) = {} ) ]_vars

\* An initiate_payment call has answered success for a session_id that the
\* collection already held.
C12_Witness ==
    \E p \in Procs :
        /\ pc[p] = "done"
        /\ resp[p][1].kind = "InitiateResponse"
        /\ Len(otp_collection) = 2
        /\ otp_collection[1].session_id = otp_collection[2].session_id
        /\ otp_collection[1].verified

\* C13: no document is deleted, the fields set at creation never change,
\* and the last step of a verify_otp call changes only documents of the
\* session_id it was called with.
C13_CreationFieldsImmutable ==
    [][ /\ Len(otp_collection') >= Len(otp_collection)
        /\ \A i \in 1..Len(otp_collection) : \A f \in CreationFields :
                otp_collection'[i][f] = otp_collection[i][f]
        /\ \A p \in Procs :
                (pc[p] = "v_found" /\ pc'[p] = "done")
                => \A i \in 1..Len(otp_collection) :
                        (otp_collection'[i] # otp_collection[i])
                        => (otp_collection[i].session_id = data[p].session_id) ]_vars

\* A verify_otp call has marked the second document, of another session_id
\* than the first, which is still pending.
C13_Witness ==
    \E p \in Procs :
        /\ Answered(p)
        /\ found[p] = 2
        /\ otp_collection[2].verified
        /\ otp_collection[1].session_id # otp_collection[2].session_id
        /\ ~otp_collection[1].verified

\* C14: every document has expires_at = created_at + OTP_EXPIRY_MINUTES.
C14_ExpiryFromCreation ==
    \A i \in 1..Len(otp_collection) :
        otp_collection[i].expires_at = otp_collection[i].created_at + OTP_EXPIRY_MINUTES

\* C15: a call that ends with an HTTPException answers 500, and neither the
\* step that raises nor the step of the call before it changes the
\* collection.
C15_FailureLeavesStore ==
    [][ \A p \in Procs :
            /\ Raises(p)
                => (resp'[p][1].status = "500" /\ otp_collection' = otp_collection)
            /\ (pc[p] = "idle" /\ pc'[p] \in {"i_gen", "v_found"})
                => (otp_collection' = otp_collection) ]_vars

\* An update_one has raised in a call that had found a pending session, and
\* the session is still pending.
C15_Witness ==
    \E p \in Procs :
        /\ pc[p] = "done"
        /\ resp[p][1].kind = "HTTPException"
        /\ found[p] # 0
        /\ ~otp_collection[found[p]].verified

\* C16: a verify_otp call answers success only if its find_one returned a
\* document of the given session_id with verified = false, the clock at the
\* find_one was not later than its expires_at, and the submitted code is its
\* otp; every VerifyResponse that is not a success has status payment_failed.
C16_SuccessOnlyIf ==
    [][ \A p \in Procs :
            /\ Answers(p)
                => /\ resp'[p][1].success
                        => ( /\ found[p] # 0
                             /\ otp_collection[found[p]].session_id = data[p].session_id
                             /\ session[p][1].session_id = data[p].session_id
                             /\ session[p][1].verified = FALSE
                             /\ at_find[p].time <= session[p][1].expires_at
                             /\ data[p].otp = session[p][1].otp )
                   /\ ~resp'[p][1].success
                        => ( resp'[p][1].status = "payment_failed" )
            /\ (Finds(p) /\ pc'[p] = "done" /\ resp'[p][1].kind = "VerifyResponse")
                => ( /\ resp'[p][1].success = FALSE
                     /\ resp'[p][1].status = "payment_failed" ) ]_vars

\* A call has answered success, and one has answered a wrong code.
C16_Witness ==
    \E p, q \in Procs :
        /\ Answered(p) /\ resp[p][1] = SuccessResponse
        /\ Answered(q) /\ resp[q][1] = InvalidOtpResponse

C18_UpdateHitsFoundDocument ==
    [][ \A p \in Procs :
            Answers(p) => otp_collection'[found[p]].verified ]_vars
====
